---------------------------- MODULE Spec2Model ----------------------------
(***************************************************************************)
(* The market-analysis pipeline of src/agents/market_analyzer.py together  *)
(* with the data collector of src/utils/web_tools.py.                      *)
(*                                                                         *)
(* Encoding of Python values:                                              *)
(*   dict            function with a string domain (a TLA+ record),        *)
(*                   {} is the empty function <<>>                         *)
(*   list            sequence                                              *)
(*   Optional[T]     None is <<>>, a present value v is <<v>>              *)
(*   {**a, k: v}     (k :> v) @@ a   (the right-hand keys of the Python    *)
(*                   literal win, @@ is left-biased)                       *)
(***************************************************************************)
EXTENDS Integers, Sequences, FiniteSets, TLC

VARIABLES
    company_name,     \* argument of analyze_company
    runState,         \* "NotStarted" | "Running" | "Completed" | "Failed"
    node,             \* graph node being executed (1..8), 0 when none
    phase,            \* position inside the node: "ready" | "llm" | "info" |
                      \* "history" | "fetch" | "none"
    state,            \* the MarketAnalysisState threaded through the graph
    prompt,           \* interpolated values of the prompt of the LLM call in flight
    llm_calls,        \* number of self.llm.invoke calls made so far
    fetches,          \* names passed to collect_company_info, in call order
    fetching,         \* Optional: the collect_company_info call waiting for
                      \* yfinance, with what it has got so far
    target_data,      \* local of _collect_company_data
    competitor_data,  \* local of _collect_company_data
    started,          \* stage names in the order the stage functions were entered
    finished,         \* stage names in the order the stage functions returned
    result,           \* Optional: the dict analyze_company returned
    raised,           \* Optional: the exception that left analyze_company
    now,              \* the clock read by datetime.now()
    other,            \* a second call of analyze_company on the same analyzer,
                      \* while it is not the one taking steps (<<>>: none)
    driver,           \* main(): its position, inputs, locals and outputs
                      \* (<<>>: analyze_company is called directly)
    fn                \* inputs and results of functions applied on their own
                      \* (<<>>: none)

vars == <<company_name, runState, node, phase, state, prompt, llm_calls,
          fetches, fetching, target_data, competitor_data, started, finished, result,
          raised, now, other, driver, fn>>

\* what a step of a run leaves alone
envVars == <<other, driver, fn>>

-----------------------------------------------------------------------------
(* Bounds of the model *)

\* the clock advances at most this many times
MaxClock == 1

-----------------------------------------------------------------------------
(* Python values *)

None == <<>>
Some(v) == <<v>>

\* dict.get(k): the value, or None when the key is missing
Get(d, k) == IF k \in DOMAIN d THEN Some(d[k]) ELSE None

\* str(x) of an Optional[str] inside an f-string: None prints as "None"
Str(opt) == IF opt = None THEN "None" ELSE opt[1]

\* seq[:n]
Take(seq, n) == SubSeq(seq, 1, IF Len(seq) < n THEN Len(seq) ELSE n)

\* [comp['name'] for comp in comps]
NamesOf(comps) == [i \in 1..Len(comps) |-> comps[i].name]

-----------------------------------------------------------------------------
(* Inputs drawn by the model *)

\* company names given to analyze_company
CompanyNames == {"", "Apple Inc.", "Unknown Startup X"}

\* response.content values the language model can return
Contents == {"", "Executive summary"}

\* exceptions self.llm.invoke can raise
ProviderErrors == {[type |-> "RateLimitError", msg |-> "quota exceeded"],
                   [type |-> "APITimeoutError", msg |-> "timed out"]}

\* stock.info dicts yfinance can return: a filled one and an empty one
YfInfos == {[marketCap |-> 3000, totalRevenue |-> 380, fullTimeEmployees |-> 160,
             sector |-> "Technology", industry |-> "Consumer Electronics",
             trailingPE |-> 30, profitMargins |-> 25, revenueGrowth |-> 2],
            <<>>}

\* stock.history(period="1y") frames: Close/High/Low columns, possibly empty
\* (closing prices whose quotient 125/100 = 1.25 is exact in binary floating
\* point, see ytd_return)
YfHists == {[High |-> <<110, 130>>, Low |-> <<90, 100>>, Close |-> <<100, 125>>],
            [High |-> <<>>, Low |-> <<>>, Close |-> <<>>]}

\* str(e) of the exceptions yfinance can raise
YfErrors == {"HTTP Error 404"}

\* outcome of one yfinance call: a value or an exception
YfInfoOutcomes == {[ok |-> TRUE, val |-> i] : i \in YfInfos}
                  \cup {[ok |-> FALSE, err |-> e] : e \in YfErrors}
YfHistOutcomes == {[ok |-> TRUE, val |-> h] : h \in YfHists}
                  \cup {[ok |-> FALSE, err |-> e] : e \in YfErrors}

-----------------------------------------------------------------------------
(* DataCollector (src/utils/web_tools.py) *)

\* The characters of every company name the model handles: TLC cannot take a
\* string apart, so the names are spelled out here.
Chars(name) ==
    CASE name = "" -> <<>>
      [] name = "Apple Inc." -> <<"A", "p", "p", "l", "e", " ", "I", "n", "c", ".">>
      [] name = "Unknown Startup X" -> <<"U", "n", "k", "n", "o", "w", "n", " ", "S", "t", "a", "r", "t", "u", "p", " ", "X">>
      [] name = "Rival" -> <<"R", "i", "v", "a", "l">>
      [] name = "Tesla" -> <<"T", "e", "s", "l", "a">>
      [] \E d \in 1..9 : name = "Competitor " \o ToString(d) ->
            <<"C", "o", "m", "p", "e", "t", "i", "t", "o", "r", " ",
              ToString(CHOOSE d \in 1..9 : name = "Competitor " \o ToString(d))>>

UpperLetters == <<"A", "B", "C", "D", "E", "F", "G", "H", "I", "J", "K", "L", "M",
                  "N", "O", "P", "Q", "R", "S", "T", "U", "V", "W", "X", "Y", "Z">>
LowerLetters == <<"a", "b", "c", "d", "e", "f", "g", "h", "i", "j", "k", "l", "m",
                  "n", "o", "p", "q", "r", "s", "t", "u", "v", "w", "x", "y", "z">>

\* str.lower() on one character
LowerChar(c) ==
    IF \E i \in 1..Len(UpperLetters) : UpperLetters[i] = c
    THEN LowerLetters[CHOOSE i \in 1..Len(UpperLetters) : UpperLetters[i] = c]
    ELSE c

\* str.lower()
Lower(cs) == [i \in 1..Len(cs) |-> LowerChar(cs[i])]

\* key in text
Contains(text, key) ==
    \E i \in 0..(Len(text) - Len(key)) : SubSeq(text, i + 1, i + Len(key)) = key

\* ticker_map, in insertion order
ticker_map ==
    <<[key |-> <<"a", "p", "p", "l", "e">>, ticker |-> "AAPL"],
      [key |-> <<"m", "i", "c", "r", "o", "s", "o", "f", "t">>, ticker |-> "MSFT"],
      [key |-> <<"g", "o", "o", "g", "l", "e">>, ticker |-> "GOOGL"],
      [key |-> <<"a", "m", "a", "z", "o", "n">>, ticker |-> "AMZN"],
      [key |-> <<"t", "e", "s", "l", "a">>, ticker |-> "TSLA"],
      [key |-> <<"m", "e", "t", "a">>, ticker |-> "META"],
      [key |-> <<"n", "e", "t", "f", "l", "i", "x">>, ticker |-> "NFLX"]>>

\* _find_ticker_symbol: the ticker of the first key of ticker_map contained in
\* the lower-cased name, or None
_find_ticker_symbol(name) ==
    LET company_lower == Lower(Chars(name))
        hits == {i \in 1..Len(ticker_map) : Contains(company_lower, ticker_map[i].key)}
    IN  IF hits = {} THEN None
        ELSE Some(ticker_map[CHOOSE i \in hits : \A j \in hits : i <= j].ticker)

\* Variant of _get_financial_data without its try/except: an exception of
\* yf.Ticker(ticker).info leaves the method.
_get_financial_data_uncaught(name, infoOut) ==
    LET ticker == _find_ticker_symbol(name) IN
    IF ticker = None
    THEN [ok |-> TRUE, val |-> [error |-> "Ticker symbol not found"]]
    ELSE IF infoOut.ok
    THEN [ok |-> TRUE, val |-> [ticker |-> ticker[1]]]
    ELSE [ok |-> FALSE, err |-> infoOut.err]

\* _get_financial_data: infoOut is what yf.Ticker(ticker).info does when it is
\* reached.  The result is [ok |-> TRUE, val |-> dict] for a return and
\* [ok |-> FALSE, err |-> e] for an exception leaving the method.
_get_financial_data(name, infoOut) ==
    LET ticker == _find_ticker_symbol(name) IN
    IF ticker = None
    THEN [ok |-> TRUE, val |-> [error |-> "Ticker symbol not found"]]
    ELSE IF infoOut.ok
    THEN LET info == infoOut.val IN
         [ok |-> TRUE,
          val |-> [ticker |-> ticker[1],
                   market_cap |-> Get(info, "marketCap"),
                   revenue |-> Get(info, "totalRevenue"),
                   employees |-> Get(info, "fullTimeEmployees"),
                   sector |-> Get(info, "sector"),
                   industry |-> Get(info, "industry"),
                   pe_ratio |-> Get(info, "trailingPE"),
                   profit_margin |-> Get(info, "profitMargins"),
                   revenue_growth |-> Get(info, "revenueGrowth")]]
    ELSE [ok |-> TRUE,
          val |-> [error |-> "Failed to get financial data: " \o infoOut.err]]

\* _get_company_profile
_get_company_profile(name) ==
    [description |-> "Profile information for " \o name,
     headquarters |-> "Unknown", founded |-> "Unknown", ceo |-> "Unknown"]

\* _get_recent_news
_get_recent_news(name) ==
    <<[title |-> "Recent news about " \o name, date |-> "2024-01-01"]>>

SeqMax(seq) == CHOOSE x \in {seq[i] : i \in 1..Len(seq)} :
                   \A i \in 1..Len(seq) : seq[i] <= x
SeqMin(seq) == CHOOSE x \in {seq[i] : i \in 1..Len(seq)} :
                   \A i \in 1..Len(seq) : x <= seq[i]

RECURSIVE GCD(_, _)
GCD(a, b) == IF b = 0 THEN a ELSE GCD(b, a % b)

IsPowerOfTwo(n) == n \in {1, 2, 4, 8, 16, 32, 64}

\* the decimal digits of r/q after the point, for 0 < r < q and q a power of two
RECURSIVE FractionDigits(_, _)
FractionDigits(r, q) ==
    IF r = 0 THEN ""
    ELSE ToString((r * 10) \div q) \o FractionDigits((r * 10) % q, q)

\* the float p/q (q > 0, p/q in lowest terms): a whole float is held as the
\* integer, any other as "float:" followed by its repr
float_value(p, q) ==
    IF q = 1 THEN p
    ELSE LET m == IF p < 0 THEN -p ELSE p IN
         "float:" \o (IF p < 0 THEN "-" ELSE "") \o ToString(m \div q) \o "."
             \o FractionDigits(m % q, q)

\* ((last / first) - 1) * 100 in IEEE double arithmetic, for positive whole
\* prices below 10^6 whose quotient in lowest terms has a denominator that is a
\* power of two up to 64: the division, the subtraction and the multiplication
\* are then all exact and the repr of the result is its decimal expansion.
\* For other prices the division rounds (120/100 gives 19.999999999999996) and
\* the operator is not defined.
ytd_return(first, last) ==
    LET g == GCD(last, first)
        n == last \div g
        d == first \div g
    IN  CASE first > 0 /\ last > 0 /\ first < 1000000 /\ last < 1000000
             /\ IsPowerOfTwo(d) ->
                LET num == 100 * (n - d)
                    h == GCD(IF num < 0 THEN -num ELSE num, d)
                IN  float_value(num \div h, d \div h)

\* _get_stock_performance: histOut is what stock.history(period="1y") does when
\* it is reached; an empty frame makes hist['Close'].iloc[-1] raise IndexError
_get_stock_performance(name, histOut) ==
    LET ticker == _find_ticker_symbol(name) IN
    IF ticker = None
    THEN [ok |-> TRUE, val |-> [error |-> "No stock data available"]]
    ELSE IF ~histOut.ok
    THEN [ok |-> TRUE,
          val |-> [error |-> "Failed to get stock performance: " \o histOut.err]]
    ELSE LET hist == histOut.val IN
         IF Len(hist.Close) = 0
         THEN [ok |-> TRUE,
               val |-> [error |-> "Failed to get stock performance: "
                                   \o "single positional indexer is out-of-bounds"]]
         ELSE [ok |-> TRUE,
               val |-> ("52_week_high" :> SeqMax(hist.High))
                       @@ ("52_week_low" :> SeqMin(hist.Low))
                       @@ [current_price |-> hist.Close[Len(hist.Close)],
                           ytd_return |->
                               ytd_return(hist.Close[1],
                                          hist.Close[Len(hist.Close)])]]

\* the dict collect_company_info returns, given what _get_financial_data and
\* _get_stock_performance have returned
company_info(name, financial_data, stock_performance) ==
    [company_name |-> name,
     financial_data |-> financial_data,
     company_profile |-> _get_company_profile(name),
     recent_news |-> _get_recent_news(name),
     stock_performance |-> stock_performance]

\* collect_company_info: the four sub-results in the order the dict literal
\* evaluates them; an exception of a sub-call leaves the method
collect_company_info(name, infoOut, histOut) ==
    LET fin  == _get_financial_data(name, infoOut)
        perf == _get_stock_performance(name, histOut)
    IN  IF ~fin.ok THEN fin
        ELSE IF ~perf.ok THEN perf
        ELSE [ok |-> TRUE, val |-> company_info(name, fin.val, perf.val)]

-----------------------------------------------------------------------------
(* MarketAnalyzer (src/agents/market_analyzer.py): the graph *)

\* add_node: the node names, in the order they are added
nodes == <<"identify_industry", "find_competitors", "collect_company_data",
           "analyze_financials", "perform_swot", "assess_market_position",
           "identify_trends", "generate_report">>

\* set_entry_point
entry_point == "identify_industry"

END == "END"

\* Variant of edges with find_competitors left out of the chain.
edges_skipping ==
    [identify_industry      |-> "collect_company_data",
     find_competitors       |-> "collect_company_data",
     collect_company_data   |-> "analyze_financials",
     analyze_financials     |-> "perform_swot",
     perform_swot           |-> "assess_market_position",
     assess_market_position |-> "identify_trends",
     identify_trends        |-> "generate_report",
     generate_report        |-> "END"]

\* Variant of edges whose last edge leads back to the entry point, not to END.
edges_cyclic ==
    [identify_industry      |-> "find_competitors",
     find_competitors       |-> "collect_company_data",
     collect_company_data   |-> "analyze_financials",
     analyze_financials     |-> "perform_swot",
     perform_swot           |-> "assess_market_position",
     assess_market_position |-> "identify_trends",
     identify_trends        |-> "generate_report",
     generate_report        |-> "identify_industry"]

\* Variant of edges whose last edge leads to a node no stage function is
\* registered for.
edges_dangling ==
    [identify_industry      |-> "find_competitors",
     find_competitors       |-> "collect_company_data",
     collect_company_data   |-> "analyze_financials",
     analyze_financials     |-> "perform_swot",
     perform_swot           |-> "assess_market_position",
     assess_market_position |-> "identify_trends",
     identify_trends        |-> "generate_report",
     generate_report        |-> "publish_report"]

\* add_edge: the successor of every node
edges == [identify_industry      |-> "find_competitors",
          find_competitors       |-> "collect_company_data",
          collect_company_data   |-> "analyze_financials",
          analyze_financials     |-> "perform_swot",
          perform_swot           |-> "assess_market_position",
          assess_market_position |-> "identify_trends",
          identify_trends        |-> "generate_report",
          generate_report        |-> END]

\* the stage functions that call self.llm.invoke (all but _collect_company_data)
llm_nodes == {"identify_industry", "find_competitors", "analyze_financials",
              "perform_swot", "assess_market_position", "identify_trends",
              "generate_report"}

-----------------------------------------------------------------------------
(* MarketAnalyzer: the _extract_* helpers, which ignore the response *)

_extract_industry_info(content) ==
    [primary_industry |-> "Technology", sub_segments |-> <<>>,
     business_model |-> "SaaS", naics_code |-> None]

_extract_competitors(content) ==
    <<[name |-> "Competitor 1", threat_level |-> "High", type |-> "direct"],
      [name |-> "Competitor 2", threat_level |-> "Medium", type |-> "indirect"]>>

_extract_financial_analysis(content) ==
    [revenue_growth |-> "15%", profitability |-> "Above average"]

_extract_swot_analysis(content) ==
    [strengths |-> <<>>, weaknesses |-> <<>>, opportunities |-> <<>>,
     threats |-> <<>>]

_extract_market_position(content) ==
    [position |-> "Challenger", market_share |-> "15%"]

_extract_market_trends(content) ==
    <<[trend |-> "AI adoption", impact |-> "High", timeline |-> "Short-term"]>>

\* 7.5, held in tenths
_extract_confidence_score(content) == 75

\* datetime.isoformat() of the clock value
isoformat(t) == "T" \o ToString(t)

-----------------------------------------------------------------------------
(* MarketAnalyzer: the prompt of every stage, as the values its f-string      *)
(* interpolates (system is the SystemMessage)                                *)

_identify_industry_prompt(s) ==
    [system |-> "You are an industry classification expert with deep knowledge of market segments.",
     target_company |-> s.target_company]

_find_competitors_prompt(s) ==
    [system |-> "You are a competitive intelligence analyst with expertise in market mapping.",
     target_company |-> s.target_company,
     industry |-> Str(s.industry)]

_analyze_financials_prompt(s) ==
    [system |-> "You are a financial analyst specializing in competitive benchmarking.",
     target_company |-> s.target_company,
     data |-> IF "target_company_data" \in DOMAIN s.company_data
              THEN s.company_data.target_company_data ELSE <<>>,
     competitors |-> NamesOf(Take(s.competitors, 3))]

\* Variant of _perform_swot_analysis_prompt that lists every competitor.
_perform_swot_analysis_prompt_all_competitors(s) ==
    [system |-> "You are a strategic business analyst with expertise in SWOT methodology.",
     target_company |-> s.target_company,
     industry |-> Str(s.industry),
     competitors |-> NamesOf(s.competitors),
     financial_position |-> s.financial_comparison]

_perform_swot_analysis_prompt(s) ==
    [system |-> "You are a strategic business analyst with expertise in SWOT methodology.",
     target_company |-> s.target_company,
     industry |-> Str(s.industry),
     competitors |-> NamesOf(Take(s.competitors, 5)),
     financial_position |-> s.financial_comparison]

_assess_market_position_prompt(s) ==
    [system |-> "You are a strategy consultant specializing in competitive positioning.",
     target_company |-> s.target_company,
     competitor_count |-> Len(s.competitors),
     financial_performance |-> s.financial_comparison,
     swot_analysis |-> s.swot_analysis]

_identify_market_trends_prompt(s) ==
    [system |-> "You are a market research analyst specializing in trend analysis and forecasting.",
     target_company |-> s.target_company,
     industry |-> Str(s.industry)]

_generate_final_report_prompt(s) ==
    [system |-> "You are a senior management consultant creating executive-level deliverables.",
     target_company |-> s.target_company,
     industry |-> Str(s.industry),
     competitor_count |-> Len(s.competitors),
     market_positioning |-> s.market_position]

\* the prompt the stage function bound to node n builds from state s
PromptOf(n, s) ==
    CASE n = "identify_industry"      -> _identify_industry_prompt(s)
      [] n = "find_competitors"       -> _find_competitors_prompt(s)
      [] n = "analyze_financials"     -> _analyze_financials_prompt(s)
      [] n = "perform_swot"           -> _perform_swot_analysis_prompt(s)
      [] n = "assess_market_position" -> _assess_market_position_prompt(s)
      [] n = "identify_trends"        -> _identify_market_trends_prompt(s)
      [] n = "generate_report"        -> _generate_final_report_prompt(s)

-----------------------------------------------------------------------------
(* MarketAnalyzer: what every stage function returns.  s is its input state, *)
(* content the response.content of its LLM call, t the clock it reads        *)

\* Variant of _identify_industry that reads a key industry_info does not have.
_identify_industry_wrong_key(s, content, t) ==
    LET industry_info == _extract_industry_info(content) IN
    [s EXCEPT !.industry = Get(industry_info, "industry"),
              !.company_data = [industry_classification |-> industry_info,
                                analysis_timestamp |-> isoformat(t)]]

\* Variant of _identify_industry that merges the two keys into the
\* company_data it is given.
_identify_industry_merging(s, content, t) ==
    LET industry_info == _extract_industry_info(content) IN
    [s EXCEPT !.industry = Get(industry_info, "primary_industry"),
              !.company_data = [industry_classification |-> industry_info,
                                analysis_timestamp |-> isoformat(t)]
                               @@ s.company_data]

_identify_industry(s, content, t) ==
    LET industry_info == _extract_industry_info(content) IN
    [s EXCEPT !.industry = Get(industry_info, "primary_industry"),
              !.company_data = [industry_classification |-> industry_info,
                                analysis_timestamp |-> isoformat(t)]]

_find_competitors(s, content) ==
    [s EXCEPT !.competitors = _extract_competitors(content)]

\* the entry appended for one competitor: {**competitor, "financial_data": comp_data}
competitor_entry(competitor, comp_data) ==
    ("financial_data" :> comp_data) @@ competitor

\* Variant of append_entry that inserts at the front.
append_entry_front(data, entry) == <<entry>> \o data

\* competitor_data.append(entry)
append_entry(data, entry) == Append(data, entry)

\* Variant of top_competitors without the limit of five.
top_competitors_unlimited(s) == s.competitors

\* state['competitors'][:5]
top_competitors(s) == Take(s.competitors, 5)

\* Variant of _collect_company_data without the **state['company_data'] spread.
_collect_company_data_replacing(s, target, competitors) ==
    [s EXCEPT !.company_data = [target_company_data |-> target,
                                competitor_data |-> competitors]]

\* the return of _collect_company_data, from its two locals
_collect_company_data(s, target, competitors) ==
    [s EXCEPT !.company_data = ("target_company_data" :> target)
                               @@ ("competitor_data" :> competitors)
                               @@ s.company_data]

\* Variant of _analyze_financials that returns its input state.
_analyze_financials_unmerged(s, content) == s

_analyze_financials(s, content) ==
    [s EXCEPT !.financial_comparison = _extract_financial_analysis(content)]

\* Variant of _perform_swot_analysis that stores under financial_comparison.
_perform_swot_analysis_wrong_field(s, content) ==
    [s EXCEPT !.financial_comparison = _extract_swot_analysis(content)]

_perform_swot_analysis(s, content) ==
    [s EXCEPT !.swot_analysis = _extract_swot_analysis(content)]

_assess_market_position(s, content) ==
    [s EXCEPT !.market_position = _extract_market_position(content)]

_identify_market_trends(s, content) ==
    [s EXCEPT !.market_trends = _extract_market_trends(content)]

_generate_final_report(s, content) ==
    [s EXCEPT !.final_report = Some(content),
              !.confidence_score = Some(_extract_confidence_score(content))]

\* the return of the stage function bound to node n
ReturnOf(n, s, content, t) ==
    CASE n = "identify_industry"      -> _identify_industry(s, content, t)
      [] n = "find_competitors"       -> _find_competitors(s, content)
      [] n = "analyze_financials"     -> _analyze_financials(s, content)
      [] n = "perform_swot"           -> _perform_swot_analysis(s, content)
      [] n = "assess_market_position" -> _assess_market_position(s, content)
      [] n = "identify_trends"        -> _identify_market_trends(s, content)
      [] n = "generate_report"        -> _generate_final_report(s, content)

\* Variant of initial_state that starts final_report as an empty text.
initial_state_blank_report(name) ==
    [target_company |-> name, industry |-> None, competitors |-> <<>>,
     company_data |-> <<>>, market_position |-> <<>>, swot_analysis |-> <<>>,
     financial_comparison |-> <<>>, market_trends |-> <<>>,
     final_report |-> Some(""), confidence_score |-> None]

\* initial_state of analyze_company
initial_state(name) ==
    [target_company |-> name, industry |-> None, competitors |-> <<>>,
     company_data |-> <<>>, market_position |-> <<>>, swot_analysis |-> <<>>,
     financial_comparison |-> <<>>, market_trends |-> <<>>,
     final_report |-> None, confidence_score |-> None]

\* What leaves analyze_company when the stage function of node n raises exc.
\* analyze_company has no try/except around self.workflow.invoke (357-358)
\* and the program defines no exception class, so the caller gets whatever
\* the graph engine lets escape. The engine is the langgraph package, which
\* is not part of the program's files: the exception object of the stage
\* leaves it, either untouched or carrying a note of the engine that names
\* the node the task ran. Both outcomes are kept; the type and the message
\* of the exception are the stage's in both.
propagate(exc, n) ==
    {[type |-> exc.type, msg |-> exc.msg, notes |-> <<>>],
     [type |-> exc.type, msg |-> exc.msg, notes |-> <<n>>]}

-----------------------------------------------------------------------------
(* The run *)

Init ==
    /\ company_name \in CompanyNames
    /\ runState = "NotStarted"
    /\ node = ""
    /\ phase = "none"
    /\ state = <<>>
    /\ prompt = None
    /\ llm_calls = 0
    /\ fetches = <<>>
    /\ fetching = None
    /\ target_data = None
    /\ competitor_data = <<>>
    /\ started = <<>>
    /\ finished = <<>>
    /\ result = None
    /\ raised = None
    /\ now = 0
    /\ other = <<>>
    /\ driver = <<>>
    /\ fn = <<>>

\* the stage function of the current node has returned new_state: the graph
\* moves along the node's edge, and past the last node workflow.invoke and
\* analyze_company return the state
Advance(new_state) ==
    /\ state' = new_state
    /\ finished' = Append(finished, node)
    /\ node' = edges[node]
    /\ IF edges[node] = END
       THEN /\ runState' = "Completed"
            /\ phase' = "none"
            /\ result' = Some(new_state)
       ELSE /\ runState' = "Running"
            /\ phase' = "ready"
            /\ result' = result

\* an exception leaves the stage function of the current node
Fail(exc) ==
    /\ runState' = "Failed"
    /\ phase' = "none"
    /\ \E e \in propagate(exc, node) : raised' = Some(e)
    /\ UNCHANGED <<node, state, finished, result>>

\* analyze_company up to the first stage: builds initial_state and enters the
\* graph at its entry point
analyze_company ==
    /\ runState = "NotStarted"
    /\ state' = initial_state(company_name)
    /\ runState' = "Running"
    /\ node' = entry_point
    /\ phase' = "ready"
    /\ UNCHANGED <<company_name, prompt, llm_calls, fetches, fetching, target_data,
                   competitor_data, started, finished, result, raised, now>>
    /\ UNCHANGED envVars

\* Variant of StageInvoke in which the stage function calls self.llm.invoke a
\* second time with the same prompt.
StageInvoke_calling_twice ==
    /\ runState = "Running"
    /\ phase = "ready"
    /\ node \in llm_nodes
    /\ started' = Append(started, node)
    /\ prompt' = Some(PromptOf(node, state))
    /\ llm_calls' = llm_calls + 2
    /\ phase' = "llm"
    /\ UNCHANGED <<company_name, runState, node, state, fetches, fetching, target_data,
                   competitor_data, finished, result, raised, now>>
    /\ UNCHANGED envVars

\* a stage function that uses the model is entered: it builds its prompt and
\* calls self.llm.invoke
StageInvoke ==
    /\ runState = "Running"
    /\ phase = "ready"
    /\ node \in llm_nodes
    /\ started' = Append(started, node)
    /\ prompt' = Some(PromptOf(node, state))
    /\ llm_calls' = llm_calls + 1
    /\ phase' = "llm"
    /\ UNCHANGED <<company_name, runState, node, state, fetches, fetching, target_data,
                   competitor_data, finished, result, raised, now>>
    /\ UNCHANGED envVars

\* self.llm.invoke returns a response: the stage function extracts, merges and
\* returns
LLMReturn ==
    /\ runState = "Running"
    /\ phase = "llm"
    /\ \E content \in Contents : Advance(ReturnOf(node, state, content, now))
    /\ prompt' = None
    /\ UNCHANGED <<company_name, llm_calls, fetches, fetching, target_data,
                   competitor_data, started, raised, now>>
    /\ UNCHANGED envVars

\* self.llm.invoke raises
LLMRaise ==
    /\ runState = "Running"
    /\ phase = "llm"
    /\ \E exc \in ProviderErrors : Fail(exc)
    /\ prompt' = None
    /\ UNCHANGED <<company_name, llm_calls, fetches, fetching, target_data,
                   competitor_data, started, now>>
    /\ UNCHANGED envVars

\* collector.collect_company_info(name) is called, for the target company or
\* for a competitor.  A name without a ticker makes no request and the call
\* returns at once; for a name with a ticker the call waits for
\* yf.Ticker(ticker).info.
call_collect_company_info(name, purpose) ==
    IF _find_ticker_symbol(name) = None
    THEN /\ IF purpose = "target"
            THEN /\ target_data' = Some(collect_company_info(name, None, None).val)
                 /\ competitor_data' = <<>>
            ELSE /\ competitor_data' =
                       append_entry(
                           competitor_data,
                           competitor_entry(
                               top_competitors(state)[Len(competitor_data) + 1],
                               collect_company_info(name, None, None).val))
                 /\ UNCHANGED target_data
         /\ phase' = "fetch"
         /\ UNCHANGED fetching
    ELSE /\ fetching' = Some([name |-> name, purpose |-> purpose])
         /\ phase' = "info"
         /\ UNCHANGED <<target_data, competitor_data>>

\* _collect_company_data is entered: it creates the collector and calls
\* collect_company_info for the target company
CollectTarget ==
    /\ runState = "Running"
    /\ phase = "ready"
    /\ node = "collect_company_data"
    /\ started' = Append(started, node)
    /\ fetches' = Append(fetches, state.target_company)
    /\ call_collect_company_info(state.target_company, "target")
    /\ UNCHANGED <<company_name, runState, node, state, prompt, llm_calls,
                   finished, result, raised, now>>
    /\ UNCHANGED envVars

\* one round of the loop over the top competitors begins: collect_company_info
\* is called for the next competitor
CollectCompetitor ==
    /\ runState = "Running"
    /\ phase = "fetch"
    /\ Len(competitor_data) < Len(top_competitors(state))
    /\ LET competitor == top_competitors(state)[Len(competitor_data) + 1] IN
       /\ fetches' = Append(fetches, competitor.name)
       /\ call_collect_company_info(competitor.name, "competitor")
    /\ UNCHANGED <<company_name, runState, node, state, prompt, llm_calls,
                   started, finished, result, raised, now>>
    /\ UNCHANGED envVars

\* yf.Ticker(ticker).info has returned or raised: _get_financial_data returns
\* and collect_company_info goes on to _get_stock_performance, where it waits
\* for stock.history
InfoReturn ==
    /\ runState = "Running"
    /\ phase = "info"
    /\ \E infoOut \in YfInfoOutcomes :
          LET fin == _get_financial_data(fetching[1].name, infoOut) IN
          IF fin.ok
          THEN /\ fetching' = Some([name |-> fetching[1].name,
                                    purpose |-> fetching[1].purpose,
                                    financial_data |-> fin.val])
               /\ phase' = "history"
               /\ UNCHANGED <<runState, node, state, finished, result, raised>>
          ELSE /\ Fail([type |-> "Exception", msg |-> fin.err])
               /\ fetching' = None
    /\ UNCHANGED <<company_name, prompt, llm_calls, fetches, target_data,
                   competitor_data, started, now>>
    /\ UNCHANGED envVars

\* stock.history has returned or raised: collect_company_info returns its
\* dict, which becomes target_data or the next entry of competitor_data
HistoryReturn ==
    /\ runState = "Running"
    /\ phase = "history"
    /\ \E histOut \in YfHistOutcomes :
          LET name == fetching[1].name
              perf == _get_stock_performance(name, histOut)
              data == company_info(name, fetching[1].financial_data, perf.val)
          IN  IF perf.ok
              THEN /\ IF fetching[1].purpose = "target"
                      THEN /\ target_data' = Some(data)
                           /\ competitor_data' = <<>>
                      ELSE /\ competitor_data' =
                                 append_entry(
                                     competitor_data,
                                     competitor_entry(
                                         top_competitors(state)[Len(competitor_data) + 1],
                                         data))
                           /\ UNCHANGED target_data
                   /\ phase' = "fetch"
                   /\ UNCHANGED <<runState, node, state, finished, result, raised>>
              ELSE /\ Fail([type |-> "Exception", msg |-> perf.err])
                   /\ UNCHANGED <<target_data, competitor_data>>
    /\ fetching' = None
    /\ UNCHANGED <<company_name, prompt, llm_calls, fetches, started, now>>
    /\ UNCHANGED envVars

\* the loop is over: _collect_company_data returns
CollectReturn ==
    /\ runState = "Running"
    /\ phase = "fetch"
    /\ Len(competitor_data) = Len(top_competitors(state))
    /\ Advance(_collect_company_data(state, target_data[1], competitor_data))
    /\ target_data' = None
    /\ competitor_data' = <<>>
    /\ UNCHANGED <<company_name, prompt, llm_calls, fetches, fetching, started,
                   raised, now>>
    /\ UNCHANGED envVars

\* time passes
Tick ==
    /\ now < MaxClock
    /\ now' = now + 1
    /\ UNCHANGED <<company_name, runState, node, phase, state, prompt,
                   llm_calls, fetches, fetching, target_data, competitor_data, started,
                   finished, result, raised>>
    /\ UNCHANGED envVars

Next ==
    \/ analyze_company
    \/ StageInvoke
    \/ LLMReturn
    \/ LLMRaise
    \/ CollectTarget
    \/ CollectCompetitor
    \/ InfoReturn
    \/ HistoryReturn
    \/ CollectReturn
    \/ Tick

Spec == Init /\ [][Next]_vars

\* the company-info records collect_company_info can return for a name
InfoResults(name) ==
    {collect_company_info(name, infoOut, histOut).val :
        infoOut \in YfInfoOutcomes, histOut \in YfHistOutcomes}

\* A run whose stage functions go on and whose calls of the language model and
\* of the data provider each come back, with a value or with an exception.
FairSpec ==
    /\ Spec
    /\ WF_vars(StageInvoke)
    /\ WF_vars(LLMReturn \/ LLMRaise)
    /\ WF_vars(CollectTarget)
    /\ WF_vars(CollectCompetitor)
    /\ WF_vars(InfoReturn)
    /\ WF_vars(HistoryReturn)
    /\ WF_vars(CollectReturn)

-----------------------------------------------------------------------------
(* Two calls of analyze_company on one MarketAnalyzer, interleaved *)

\* the companies of the two calls
PairNames == {"Apple Inc.", "Unknown Startup X"}

\* everything one call of analyze_company owns: its argument, its position in
\* the graph, the state dict workflow.invoke threads, the locals of the stage
\* function it is in, its outcome (and what the model logs about it)
call_context ==
    [company_name |-> company_name, runState |-> runState, node |-> node,
     phase |-> phase, state |-> state, prompt |-> prompt,
     llm_calls |-> llm_calls, fetches |-> fetches, fetching |-> fetching,
     target_data |-> target_data, competitor_data |-> competitor_data,
     started |-> started, finished |-> finished, result |-> result,
     raised |-> raised]

\* Variant of resumed_locals in which target_data and competitor_data are kept
\* on the analyzer (attributes of self), so that every call sees the same pair.
resumed_locals_on_self(saved) ==
    [target_data |-> target_data, competitor_data |-> competitor_data]

\* the locals of _collect_company_data a call finds when it goes on: its own,
\* since collector, target_data and competitor_data are locals of the call
resumed_locals(saved) ==
    [target_data |-> saved.target_data, competitor_data |-> saved.competitor_data]

InitPair ==
    /\ company_name \in PairNames
    /\ runState = "NotStarted"
    /\ node = ""
    /\ phase = "none"
    /\ state = <<>>
    /\ prompt = None
    /\ llm_calls = 0
    /\ fetches = <<>>
    /\ fetching = None
    /\ target_data = None
    /\ competitor_data = <<>>
    /\ started = <<>>
    /\ finished = <<>>
    /\ result = None
    /\ raised = None
    /\ now = 0
    /\ \E name \in PairNames \ {company_name} :
          other = [company_name |-> name, runState |-> "NotStarted", node |-> "",
                   phase |-> "none", state |-> <<>>, prompt |-> None,
                   llm_calls |-> 0, fetches |-> <<>>, fetching |-> None,
                   target_data |-> None,
                   competitor_data |-> <<>>, started |-> <<>>,
                   finished |-> <<>>, result |-> None, raised |-> None]
    /\ driver = <<>>
    /\ fn = <<>>

\* the call that was waiting goes on and the one that was taking steps waits:
\* each finds what it owns as it left it
resume_other ==
    /\ other /= <<>>
    /\ other' = call_context
    /\ company_name' = other.company_name
    /\ runState' = other.runState
    /\ node' = other.node
    /\ phase' = other.phase
    /\ state' = other.state
    /\ prompt' = other.prompt
    /\ llm_calls' = other.llm_calls
    /\ fetches' = other.fetches
    /\ fetching' = other.fetching
    /\ target_data' = resumed_locals(other).target_data
    /\ competitor_data' = resumed_locals(other).competitor_data
    /\ started' = other.started
    /\ finished' = other.finished
    /\ result' = other.result
    /\ raised' = other.raised

\* the other call takes the next step: between two steps of one call (at a
\* model call, a data fetch or a stage boundary) the other call may run
Switch ==
    /\ resume_other
    /\ UNCHANGED <<now, driver, fn>>

NextPair ==
    \/ analyze_company
    \/ StageInvoke
    \/ LLMReturn
    \/ LLMRaise
    \/ CollectTarget
    \/ CollectCompetitor
    \/ InfoReturn
    \/ HistoryReturn
    \/ CollectReturn
    \/ Tick
    \/ Switch

SpecPair == InitPair /\ [][NextPair]_vars

-----------------------------------------------------------------------------
(* _collect_company_data called on states with competitor lists of any length *)

MaxCompetitors == 7

\* a competitors list of n entries, as a parsing _extract_competitors could
\* return it; the third is a company _find_ticker_symbol knows
competitor_list(n) ==
    [i \in 1..n |->
        [name |-> IF i = 3 THEN "Tesla" ELSE "Competitor " \o ToString(i),
         threat_level |-> IF i % 2 = 1 THEN "High" ELSE "Medium",
         type |-> IF i % 3 = 1 THEN "direct"
                  ELSE IF i % 3 = 2 THEN "indirect" ELSE "emerging"]]

\* the state _collect_company_data is called with: that of a run whose first
\* two stages have returned, with a competitors list of 0 to MaxCompetitors
\* entries
InitCollect ==
    /\ company_name \in PairNames
    /\ runState = "Running"
    /\ node = "collect_company_data"
    /\ phase = "ready"
    /\ \E n \in 0..MaxCompetitors :
          state = [_find_competitors(
                       _identify_industry(initial_state(company_name), "", 0), "")
                   EXCEPT !.competitors = competitor_list(n)]
    /\ prompt = None
    /\ llm_calls = 2
    /\ fetches = <<>>
    /\ fetching = None
    /\ target_data = None
    /\ competitor_data = <<>>
    /\ started = <<"identify_industry", "find_competitors">>
    /\ finished = <<"identify_industry", "find_competitors">>
    /\ result = None
    /\ raised = None
    /\ now = 0
    /\ other = <<>>
    /\ driver = <<>>
    /\ fn = <<>>

NextCollect ==
    \/ CollectTarget
    \/ CollectCompetitor
    \/ InfoReturn
    \/ HistoryReturn
    \/ CollectReturn

SpecCollect == InitCollect /\ [][NextCollect]_vars

-----------------------------------------------------------------------------
(* The stage functions called on two state records *)

\* what collect_company_info returns for name when yfinance returns an empty
\* info dict and an empty price history
company_info_without_data(name) ==
    collect_company_info(name, [ok |-> TRUE, val |-> <<>>],
                         [ok |-> TRUE,
                          val |-> [High |-> <<>>, Low |-> <<>>, Close |-> <<>>]]).val

\* the k-th node on the path from the entry point
RECURSIVE node_at(_)
node_at(k) == IF k = 1 THEN entry_point ELSE edges[node_at(k - 1)]

\* the state a run for name is in when k stages have returned
RECURSIVE state_after(_, _)
state_after(name, k) ==
    IF k = 0 THEN initial_state(name)
    ELSE LET s == state_after(name, k - 1)
             n == node_at(k)
         IN  IF n = "collect_company_data"
             THEN _collect_company_data(
                      s, company_info_without_data(name),
                      [i \in 1..Len(top_competitors(s)) |->
                          competitor_entry(
                              top_competitors(s)[i],
                              company_info_without_data(top_competitors(s)[i].name))])
             ELSE ReturnOf(n, s, "Executive summary", 0)

\* state records a stage function is called with: the states of a run for
\* "Apple Inc.", as they are and with a competitors list of MaxCompetitors
\* entries
InputRecords ==
    LET reached == {state_after("Apple Inc.", k) : k \in 0..7}
    IN  reached \cup {[s EXCEPT !.competitors = competitor_list(MaxCompetitors)] :
                         s \in reached}

\* other values of each field of a state record
OtherValues ==
    [target_company |-> {"Unknown Startup X"},
     industry |-> {None, Some("Retail")},
     competitors |-> {<<>>, competitor_list(2), competitor_list(5),
                      competitor_list(MaxCompetitors),
                      [competitor_list(MaxCompetitors) EXCEPT ![1].threat_level = "Low"],
                      [competitor_list(MaxCompetitors) EXCEPT ![1].name = "Rival"]},
     company_data |-> {<<>>, [source |-> "cache"]},
     market_position |-> {<<>>, [position |-> "Leader", market_share |-> "40%"]},
     swot_analysis |-> {<<>>, [strengths |-> <<"Brand">>, weaknesses |-> <<>>,
                               opportunities |-> <<>>, threats |-> <<>>]},
     financial_comparison |-> {<<>>, [revenue_growth |-> "3%",
                                      profitability |-> "Below average"]},
     market_trends |-> {<<>>, <<[trend |-> "Remote work", impact |-> "Medium",
                                 timeline |-> "Long-term"]>>},
     final_report |-> {None, Some("Executive summary")},
     confidence_score |-> {None, Some(75)}]

\* s itself and the records that differ from s in one field
Variants(s) ==
    {s} \cup {[s EXCEPT ![f] = v] : <<f, v>> \in
                 UNION {{<<g, w>> : w \in OtherValues[g]} : g \in DOMAIN s}}

\* yfinance outcomes of the calls made on their own: the info of the target
\* company is a filled dict, an empty one or an exception; the info of a
\* competitor is empty and every price history is an empty frame
FnInfoOutcomes(purpose) ==
    IF purpose = "target" THEN YfInfoOutcomes ELSE {[ok |-> TRUE, val |-> <<>>]}

FnHistOutcomes ==
    {[ok |-> TRUE, val |-> [High |-> <<>>, Low |-> <<>>, Close |-> <<>>]]}

\* one stage function and two state records a and b, b being a or a variant of
\* a. The function is called once on each, by two threads: the run variables
\* are those of the call on fn[fn.cur], other holds those of the second call.
\* Nothing has been called yet.
InitFn ==
    /\ company_name = "Apple Inc."
    /\ runState = "NotStarted"
    /\ node = ""
    /\ phase = "none"
    /\ state = <<>>
    /\ prompt = None
    /\ llm_calls = 0
    /\ fetches = <<>>
    /\ fetching = None
    /\ target_data = None
    /\ competitor_data = <<>>
    /\ started = <<>>
    /\ finished = <<>>
    /\ result = None
    /\ raised = None
    /\ now = 0
    /\ other = [company_name |-> "Apple Inc.", runState |-> "NotStarted",
                node |-> "", phase |-> "none", state |-> <<>>, prompt |-> None,
                llm_calls |-> 0, fetches |-> <<>>, fetching |-> None,
                target_data |-> None, competitor_data |-> <<>>,
                started |-> <<>>, finished |-> <<>>, result |-> None,
                raised |-> None]
    /\ driver = <<>>
    /\ \E n \in {nodes[i] : i \in 1..Len(nodes)}, a \in InputRecords :
          \E b \in Variants(a) :
             fn = [stage |-> n, a |-> a, b |-> b, cur |-> "a",
                   out |-> [a |-> None, b |-> None]]

\* the call on fn[fn.cur] has not been made yet
NotCalled ==
    /\ phase = "none"
    /\ started = <<>>

\* a stage function that uses the model is called on fn[fn.cur]: it builds its
\* prompt and calls self.llm.invoke, where it waits
CallStage ==
    /\ fn.stage \in llm_nodes
    /\ NotCalled
    /\ state' = fn[fn.cur]
    /\ started' = Append(started, fn.stage)
    /\ prompt' = Some(PromptOf(fn.stage, fn[fn.cur]))
    /\ llm_calls' = llm_calls + 1
    /\ phase' = "llm"
    /\ UNCHANGED <<company_name, runState, node, fetches, fetching, target_data,
                   competitor_data, finished, result, raised, now, other,
                   driver, fn>>

\* self.llm.invoke returns a response: the stage function extracts, merges and
\* returns to its caller
CallStageReturn ==
    /\ fn.stage \in llm_nodes
    /\ phase = "llm"
    /\ \E content \in Contents :
          fn' = [fn EXCEPT !.out[fn.cur] =
                    Some([at |-> now, content |-> content,
                          prompt |-> prompt[1],
                          returned |-> ReturnOf(fn.stage, state, content, now)])]
    /\ finished' = Append(finished, fn.stage)
    /\ prompt' = None
    /\ phase' = "none"
    /\ UNCHANGED <<company_name, runState, node, state, llm_calls, fetches,
                   fetching, target_data, competitor_data, started, result,
                   raised, now, other, driver>>

\* self.llm.invoke raises: the exception leaves the stage function, which has
\* no try/except, and reaches the caller as it is; nothing is returned
CallStageRaise ==
    /\ fn.stage \in llm_nodes
    /\ phase = "llm"
    /\ \E exc \in ProviderErrors :
          raised' = Some([type |-> exc.type, msg |-> exc.msg, notes |-> <<>>])
    /\ prompt' = None
    /\ phase' = "none"
    /\ UNCHANGED <<company_name, runState, node, state, llm_calls, fetches,
                   fetching, target_data, competitor_data, started, finished,
                   result, now, other, driver, fn>>

\* _collect_company_data is called on fn[fn.cur]: it creates the collector and
\* calls collect_company_info for the target company
CallCollect ==
    /\ fn.stage = "collect_company_data"
    /\ NotCalled
    /\ state' = fn[fn.cur]
    /\ started' = Append(started, fn.stage)
    /\ fetches' = Append(fetches, fn[fn.cur].target_company)
    /\ call_collect_company_info(fn[fn.cur].target_company, "target")
    /\ UNCHANGED <<company_name, runState, node, prompt, llm_calls, finished,
                   result, raised, now, other, driver, fn>>

\* one round of the loop over the top competitors begins
CallCollectCompetitor ==
    /\ fn.stage = "collect_company_data"
    /\ phase = "fetch"
    /\ Len(competitor_data) < Len(top_competitors(state))
    /\ LET competitor == top_competitors(state)[Len(competitor_data) + 1] IN
       /\ fetches' = Append(fetches, competitor.name)
       /\ call_collect_company_info(competitor.name, "competitor")
    /\ UNCHANGED <<company_name, runState, node, state, prompt, llm_calls,
                   started, finished, result, raised, now, other, driver, fn>>

\* yf.Ticker(ticker).info has returned or raised: _get_financial_data returns
\* and collect_company_info waits for stock.history
CallInfoReturn ==
    /\ fn.stage = "collect_company_data"
    /\ phase = "info"
    /\ \E infoOut \in FnInfoOutcomes(fetching[1].purpose) :
          fetching' = Some([name |-> fetching[1].name,
                            purpose |-> fetching[1].purpose,
                            financial_data |->
                                _get_financial_data(fetching[1].name,
                                                    infoOut).val])
    /\ phase' = "history"
    /\ UNCHANGED <<company_name, runState, node, state, prompt, llm_calls,
                   fetches, target_data, competitor_data, started, finished,
                   result, raised, now, other, driver, fn>>

\* stock.history has returned: collect_company_info returns its dict, which
\* becomes target_data or the next entry of competitor_data
CallHistoryReturn ==
    /\ fn.stage = "collect_company_data"
    /\ phase = "history"
    /\ \E histOut \in FnHistOutcomes :
          LET name == fetching[1].name
              data == company_info(name, fetching[1].financial_data,
                                   _get_stock_performance(name, histOut).val)
          IN  IF fetching[1].purpose = "target"
              THEN /\ target_data' = Some(data)
                   /\ competitor_data' = <<>>
              ELSE /\ competitor_data' =
                         append_entry(
                             competitor_data,
                             competitor_entry(
                                 top_competitors(state)[Len(competitor_data) + 1],
                                 data))
                   /\ UNCHANGED target_data
    /\ fetching' = None
    /\ phase' = "fetch"
    /\ UNCHANGED <<company_name, runState, node, state, prompt, llm_calls,
                   fetches, started, finished, result, raised, now, other,
                   driver, fn>>

\* the loop is over: _collect_company_data returns to its caller
CallCollectReturn ==
    /\ fn.stage = "collect_company_data"
    /\ phase = "fetch"
    /\ Len(competitor_data) = Len(top_competitors(state))
    /\ fn' = [fn EXCEPT !.out[fn.cur] =
                 Some([at |-> now, fetched |-> target_data[1],
                       returned |-> _collect_company_data(state, target_data[1],
                                                          competitor_data)])]
    /\ finished' = Append(finished, fn.stage)
    /\ target_data' = None
    /\ competitor_data' = <<>>
    /\ phase' = "none"
    /\ UNCHANGED <<company_name, runState, node, state, prompt, llm_calls,
                   fetches, fetching, started, result, raised, now, other,
                   driver>>

\* the thread of the second call, which is not over, runs: while the call on
\* fn[fn.cur] waits for the model or for yfinance, or after it is over (the
\* call on fn.a is the one made first)
SwitchCall ==
    /\ phase \in {"llm", "info", "history"} \/ (phase = "none" /\ ~NotCalled)
    /\ other.phase /= "none" \/ other.started = <<>>
    /\ resume_other
    /\ fn' = [fn EXCEPT !.cur = IF @ = "a" THEN "b" ELSE "a"]
    /\ UNCHANGED <<now, driver>>

NextFn ==
    \/ CallStage
    \/ CallStageReturn
    \/ CallStageRaise
    \/ CallCollect
    \/ CallCollectCompetitor
    \/ CallInfoReturn
    \/ CallHistoryReturn
    \/ CallCollectReturn
    \/ SwitchCall
    \/ Tick

SpecFn == InitFn /\ [][NextFn]_vars

-----------------------------------------------------------------------------
(* main(): the command-line driver *)

\* str.upper() on one character
UpperChar(c) ==
    IF \E i \in 1..Len(LowerLetters) : LowerLetters[i] = c
    THEN UpperLetters[CHOOSE i \in 1..Len(LowerLetters) : LowerLetters[i] = c]
    ELSE c

\* str.upper()
Upper(cs) == [i \in 1..Len(cs) |-> UpperChar(cs[i])]

\* str.replace(a, b) for single characters
Replace(cs, a, b) == [i \in 1..Len(cs) |-> IF cs[i] = a THEN b ELSE cs[i]]

\* the string made of the characters cs
RECURSIVE Join(_)
Join(cs) == IF cs = <<>> THEN "" ELSE Head(cs) \o Join(Tail(cs))

RECURSIVE lstrip(_)
lstrip(cs) == IF cs /= <<>> /\ Head(cs) = " " THEN lstrip(Tail(cs)) ELSE cs

RECURSIVE rstrip(_)
rstrip(cs) ==
    IF cs /= <<>> /\ cs[Len(cs)] = " "
    THEN rstrip(SubSeq(cs, 1, Len(cs) - 1))
    ELSE cs

\* str.strip()
strip(cs) == rstrip(lstrip(cs))

\* what the user types at the prompt, character by character
TypedInputs ==
    {<<>>, <<" ", " ">>, <<" ">> \o Chars("Apple Inc.") \o <<" ">>,
     Chars("Unknown Startup X")}

available_models == <<"gpt-4o-mini", "gpt-3.5-turbo", "gpt-4-turbo-preview", "gpt-4">>

SAVE_RESULTS == TRUE

\* datetime.now().strftime('%Y-%m-%d %H:%M:%S') and ...('%Y%m%d_%H%M%S')
strftime_display(t) == "D" \o ToString(t)
strftime_file(t) == "F" \o ToString(t)

\* what the provider answers to a test request for a model: a response or an
\* exception
ProviderAnswers ==
    {[ok |-> TRUE]} \cup {[ok |-> FALSE, err |-> e] : e \in ProviderErrors}

\* what one probe of a model (ChatOpenAI(...) and test_llm.invoke) ends in.
\* main.py imports neither ChatOpenAI nor HumanMessage: unless the module
\* globals hold these names when main() is called, the probe raises NameError
\* before any request is sent, whatever the provider would answer.
ProbeOutcome(names_bound, answer) ==
    IF names_bound
    THEN answer
    ELSE [ok |-> FALSE,
          err |-> [type |-> "NameError",
                   msg |-> "name 'ChatOpenAI' is not defined"]]

\* failures of open(filename, 'w'), with their str(e)
SaveErrors(filename) ==
    {[type |-> "PermissionError",
      msg |-> "[Errno 13] Permission denied: '" \o filename \o "'"]}

\* result['final_report'][:500] + "..." if len(...) > 500 else the report
report_preview(final_report) ==
    IF Len(final_report) > 500
    THEN SubSeq(final_report, 1, 500) \o "..."
    ELSE final_report

\* the lines the report display prints for the returned record r
report_lines(name, r, t, model) ==
    <<[line |-> "analysis_complete"],
      [line |-> "report_header", company |-> Join(Upper(Chars(name))),
       generated |-> strftime_display(t), model |-> model,
       confidence_score |-> r.confidence_score],
      [line |-> "industry", industry |-> r.industry],
      [line |-> "competitors", count |-> Len(r.competitors),
       listed |-> [i \in 1..Len(Take(r.competitors, 5)) |->
                     [name |-> r.competitors[i].name,
                      threat_level |-> r.competitors[i].threat_level]]],
      [line |-> "market_position", position |-> r.market_position.position,
       market_share |-> r.market_position.market_share],
      [line |-> "key_trends", count |-> Len(r.market_trends),
       listed |-> [i \in 1..Len(Take(r.market_trends, 3)) |->
                     [trend |-> r.market_trends[i].trend,
                      impact |-> r.market_trends[i].impact]]]>>
    \o (IF r.final_report \notin {None, Some("")}
        THEN <<[line |-> "executive_summary",
                preview |-> report_preview(r.final_report[1])]>>
        ELSE <<>>)

\* the except clause of main: str(e), the tip and traceback.print_exc(),
\* which prints the exception's type and the notes attached to it
error_lines(exc) ==
    <<[line |-> "error_during_analysis", text |-> exc.msg],
      [line |-> "tip"],
      [line |-> "traceback", type |-> exc.type,
       notes |-> IF "notes" \in DOMAIN exc THEN exc.notes ELSE <<>>]>>

results_filename(name, t) ==
    "market_analysis_" \o Join(Replace(Chars(name), " ", "_")) \o "_"
        \o strftime_file(t) \o ".json"

InitDriver ==
    /\ company_name = ""
    /\ runState = "NotStarted"
    /\ node = ""
    /\ phase = "none"
    /\ state = <<>>
    /\ prompt = None
    /\ llm_calls = 0
    /\ fetches = <<>>
    /\ fetching = None
    /\ target_data = None
    /\ competitor_data = <<>>
    /\ started = <<>>
    /\ finished = <<>>
    /\ result = None
    /\ raised = None
    /\ now = 0
    /\ other = <<>>
    /\ \E key \in BOOLEAN, bound \in BOOLEAN :
          driver = [pc |-> "start", api_key |-> key, names_bound |-> bound,
                    model_index |-> 1, probed |-> <<>>,
                    selected_model |-> None, analyzer |-> None,
                    output |-> <<>>, files |-> <<>>]
    /\ fn = <<>>

\* the run of the analyzer is not touched by a step of main() itself
driverOnly ==
    UNCHANGED <<runState, node, phase, state, prompt, llm_calls, fetches,
                fetching, target_data, competitor_data, started, finished, result,
                raised, now, other, fn>>

\* banner and API-key check
main_start ==
    /\ driver.pc = "start"
    /\ IF ~driver.api_key
       THEN driver' = [driver EXCEPT
                          !.output = @ \o <<[line |-> "banner"],
                                            [line |-> "api_key_not_found"]>>,
                          !.pc = "done"]
       ELSE driver' = [driver EXCEPT
                          !.output = Append(@, [line |-> "banner"]),
                          !.pc = "probe"]
    /\ UNCHANGED company_name
    /\ driverOnly

\* one round of the loop over available_models, and what follows the loop
main_probe ==
    /\ driver.pc = "probe"
    /\ \E answer \in ProviderAnswers :
          LET model == available_models[driver.model_index]
              outcome == ProbeOutcome(driver.names_bound, answer)
              probe == [model |-> model, answered |-> answer.ok,
                        succeeded |-> outcome.ok]
          IN  IF outcome.ok
              THEN driver' = [driver EXCEPT
                                 !.probed = Append(@, probe),
                                 !.selected_model = Some(model),
                                 !.output = Append(@, [line |-> "using_model",
                                                       model |-> model]),
                                 !.pc = "analyzer"]
              ELSE LET line == [line |-> "model_not_available", model |-> model,
                                text |-> outcome.err.msg]
                   IN  IF driver.model_index < Len(available_models)
                       THEN driver' = [driver EXCEPT
                                          !.probed = Append(@, probe),
                                          !.output = Append(@, line),
                                          !.model_index = @ + 1]
                       ELSE driver' = [driver EXCEPT
                                          !.probed = Append(@, probe),
                                          !.output = @ \o <<line,
                                              [line |-> "no_available_models"]>>,
                                          !.pc = "done"]
    /\ UNCHANGED company_name
    /\ driverOnly

\* analyzer = MarketAnalyzer(...), whose __init__ prints the model, and
\* input(...) writing its prompt: main() now waits for the user
main_analyzer ==
    /\ driver.pc = "analyzer"
    /\ driver' = [driver EXCEPT
                     !.analyzer = driver.selected_model,
                     !.output = @ \o <<[line |-> "initialized_with_model",
                                        model |-> driver.selected_model[1]],
                                       [line |-> "enter_company_name"]>>,
                     !.pc = "input"]
    /\ UNCHANGED company_name
    /\ driverOnly

\* the user has typed a line: .strip() and the check of the name
main_input ==
    /\ driver.pc = "input"
    /\ \E typed \in TypedInputs :
          LET name == Join(strip(typed))
          IN  /\ company_name' = name
              /\ IF name = ""
                 THEN driver' = [driver EXCEPT
                                    !.output = Append(@, [line |-> "name_required"]),
                                    !.pc = "done"]
                 ELSE driver' = [driver EXCEPT
                                    !.output = Append(@, [line |-> "starting",
                                                          company |-> name]),
                                    !.pc = "try"]
    /\ driverOnly

\* result = analyzer.analyze_company(company_name), entered
main_call ==
    /\ driver.pc = "try"
    /\ analyze_company

\* analyze_company has returned: the report is printed
main_display ==
    /\ driver.pc = "try"
    /\ runState = "Completed"
    /\ driver' = [driver EXCEPT
                     !.output = @ \o report_lines(company_name, result[1], now,
                                                  driver.selected_model[1]),
                     !.pc = "save"]
    /\ UNCHANGED company_name
    /\ driverOnly

\* the results file is written; a failure of open() reaches the except clause
main_save ==
    /\ driver.pc = "save"
    /\ IF SAVE_RESULTS
       THEN LET filename == results_filename(company_name, now) IN
            \/ driver' = [driver EXCEPT
                             !.files = Append(@, [name |-> filename,
                                                  content |-> result[1]]),
                             !.output = Append(@, [line |-> "saved_to",
                                                   filename |-> filename]),
                             !.pc = "done"]
            \/ \E exc \in SaveErrors(filename) :
                  driver' = [driver EXCEPT
                                !.output = @ \o error_lines(exc),
                                !.pc = "done"]
       ELSE driver' = [driver EXCEPT !.pc = "done"]
    /\ UNCHANGED company_name
    /\ driverOnly

\* Variant of main_except that also dumps the state reached so far to the
\* results file.
main_except_saving_partial ==
    /\ driver.pc = "try"
    /\ runState = "Failed"
    /\ driver' = [driver EXCEPT
                     !.output = @ \o error_lines(raised[1]),
                     !.files = Append(@, [name |-> results_filename(company_name, now),
                                          content |-> state]),
                     !.pc = "done"]
    /\ UNCHANGED company_name
    /\ driverOnly

\* analyze_company has raised: the except clause prints the error
main_except ==
    /\ driver.pc = "try"
    /\ runState = "Failed"
    /\ driver' = [driver EXCEPT
                     !.output = @ \o error_lines(raised[1]),
                     !.pc = "done"]
    /\ UNCHANGED company_name
    /\ driverOnly

NextDriver ==
    \/ main_start
    \/ main_probe
    \/ main_analyzer
    \/ main_input
    \/ main_call
    \/ StageInvoke
    \/ LLMReturn
    \/ LLMRaise
    \/ CollectTarget
    \/ CollectCompetitor
    \/ InfoReturn
    \/ HistoryReturn
    \/ CollectReturn
    \/ main_display
    \/ main_save
    \/ main_except
    \/ Tick

SpecDriver == InitDriver /\ [][NextDriver]_vars

-----------------------------------------------------------------------------
(* Helpers of the properties *)

IsPrefix(a, b) == Len(a) <= Len(b) /\ SubSeq(b, 1, Len(a)) = a

NoDuplicates(seq) == \A i, j \in 1..Len(seq) : seq[i] = seq[j] => i = j

Range(seq) == {seq[i] : i \in 1..Len(seq)}

\* the stage order the specification states
ClaimedOrder == <<"identify_industry", "find_competitors", "collect_company_data",
                  "analyze_financials", "perform_swot", "assess_market_position",
                  "identify_trends", "generate_report">>

\* position of a stage in the stated order
StageIndex(n) == CHOOSE k \in 1..Len(ClaimedOrder) : ClaimedOrder[k] = n

Terminal == runState \in {"Completed", "Failed"}

\* everything but the clock
runVars == <<company_name, runState, node, phase, state, prompt, llm_calls,
             fetches, fetching, target_data, competitor_data, started, finished, result,
             raised>>

-----------------------------------------------------------------------------
(* C1 *)

\* C1: the stage functions are entered in the stated order with none skipped
\* or reordered (the entries so far are a prefix of the order), a stage is
\* entered only after its predecessor has returned, at most one stage is
\* between entry and return, and a completed run has entered and left all
\* eight.
C1_StageOrder ==
    /\ IsPrefix(started, ClaimedOrder)
    /\ IsPrefix(finished, started)
    /\ Len(started) - Len(finished) \in {0, 1}
    /\ runState = "Completed" => finished = ClaimedOrder

C1_Witness ==
    /\ runState = "Completed"
    /\ started = ClaimedOrder
    /\ finished = ClaimedOrder

-----------------------------------------------------------------------------
(* C2 *)

\* C2: a run for a non-empty name ends with a record whose final_report and
\* confidence_score are set, or with a PipelineStageError that names one
\* stage, the one that failed, and wraps the underlying cause; no exception
\* of another type leaves the run.
C2_RecordOrStageError ==
    company_name /= "" =>
    /\ runState = "Completed" =>
          /\ result /= None
          /\ result[1].final_report /= None
          /\ result[1].confidence_score /= None
    /\ runState = "Failed" =>
          /\ raised /= None
          /\ raised[1].type = "PipelineStageError"
          /\ DOMAIN raised[1] = {"type", "stage", "cause"}
          /\ raised[1].stage = node

-----------------------------------------------------------------------------
(* C3 *)

\* C3 as stated: when the 4th self.llm.invoke of a run (for a non-empty name)
\* raises, the run has failed in analyze_financials with financial_comparison
\* still empty.
C3_Original ==
    (company_name /= "" /\ runState = "Failed" /\ llm_calls = 4) =>
        /\ node = "analyze_financials"
        /\ state.financial_comparison = <<>>

\* C3, amended: _collect_company_data makes no model call, so the 4th
\* self.llm.invoke is made by perform_swot: when it raises, the run has failed
\* in perform_swot with swot_analysis still empty and financial_comparison
\* already set. It is the 3rd call whose failure fails analyze_financials with
\* financial_comparison still empty.
C3_FourthCallFailure ==
    /\ (runState = "Failed" /\ llm_calls = 4) =>
          /\ node = "perform_swot"
          /\ state.swot_analysis = <<>>
          /\ state.financial_comparison /= <<>>
    /\ (runState = "Failed" /\ llm_calls = 3) =>
          /\ node = "analyze_financials"
          /\ state.financial_comparison = <<>>

C3_Witness ==
    /\ runState = "Failed"
    /\ llm_calls = 4
    /\ node = "perform_swot"
    /\ finished = SubSeq(ClaimedOrder, 1, 4)

-----------------------------------------------------------------------------
(* C4 *)

\* C4: a run that fails does so in the stage function entered last and
\* without touching the state; once a run is Completed or Failed nothing of it
\* changes any more (no stage is entered, no call is made); and no stage
\* function is entered twice in a run.
C4_TerminalAndOnce ==
    [][ /\ (runState = "Running" /\ runState' = "Failed") =>
              /\ node' = node
              /\ node = started[Len(started)]
              /\ state' = state
        /\ Terminal => UNCHANGED runVars
        /\ NoDuplicates(started') ]_vars

C4_Witness ==
    /\ runState = "Failed"
    /\ node = "assess_market_position"
    /\ started = SubSeq(ClaimedOrder, 1, 6)
    /\ finished = SubSeq(ClaimedOrder, 1, 5)

-----------------------------------------------------------------------------
(* C5 *)

\* the field(s) of stage j are no longer in their initial value
StagePopulated(s, j) ==
    CASE j = 1 -> s.industry /= None /\ s.company_data /= <<>>
      [] j = 2 -> s.competitors /= <<>>
      [] j = 3 -> {"target_company_data", "competitor_data"}
                      \subseteq DOMAIN s.company_data
      [] j = 4 -> s.financial_comparison /= <<>>
      [] j = 5 -> s.swot_analysis /= <<>>
      [] j = 6 -> s.market_position /= <<>>
      [] j = 7 -> s.market_trends /= <<>>

\* C5: while stage k is about to run or running, the fields of stages 1..k-1
\* are all populated in the state it reads, and the prompt it has built does
\* not print an unset industry.
C5_FieldsPopulated ==
    runState = "Running" =>
        /\ \A j \in 1..(StageIndex(node) - 1) : StagePopulated(state, j)
        /\ (phase = "llm" /\ "industry" \in DOMAIN prompt[1]) =>
              prompt[1].industry /= "None"

C5_Witness ==
    /\ runState = "Running"
    /\ node = "generate_report"
    /\ phase = "llm"
    /\ \A j \in 1..7 : StagePopulated(state, j)

-----------------------------------------------------------------------------
(* C6 *)

\* C6: no step of a run removes a key of company_data: the keys after a step
\* include the keys before it.
C6_KeysAccumulate ==
    [][ runState /= "NotStarted" =>
            DOMAIN state.company_data \subseteq DOMAIN state'.company_data ]_vars

C6_Witness ==
    /\ runState /= "NotStarted"
    /\ DOMAIN state.company_data =
          {"industry_classification", "analysis_timestamp",
           "target_company_data", "competitor_data"}

-----------------------------------------------------------------------------
(* C7 *)

\* C7: the entries collected so far, and competitor_data once stored, name the
\* competitors in the order of the competitors list: entry i carries the name
\* of competitors[i].
C7_OrderPreserved ==
    runState /= "NotStarted" =>
        /\ Len(competitor_data) <= Len(state.competitors)
        /\ \A i \in 1..Len(competitor_data) :
              competitor_data[i].name = state.competitors[i].name
        /\ "competitor_data" \in DOMAIN state.company_data =>
              LET stored == state.company_data.competitor_data IN
              /\ Len(stored) <= Len(state.competitors)
              /\ \A i \in 1..Len(stored) :
                    stored[i].name = state.competitors[i].name

C7_Witness ==
    /\ runState /= "NotStarted"
    /\ "competitor_data" \in DOMAIN state.company_data
    /\ NamesOf(state.company_data.competitor_data) =
          <<"Competitor 1", "Competitor 2">>

-----------------------------------------------------------------------------
(* C8 *)

\* a company-info record whose lookups failed carries the error markers
ErrorTagged(info) ==
    /\ _find_ticker_symbol(info.company_name) = None =>
          /\ info.financial_data = [error |-> "Ticker symbol not found"]
          /\ info.stock_performance = [error |-> "No stock data available"]
    /\ DOMAIN info.financial_data = {"error"}
          \/ "ticker" \in DOMAIN info.financial_data
    /\ DOMAIN info.stock_performance = {"error"}
          \/ "current_price" \in DOMAIN info.stock_performance

\* C8: no run fails in collect_company_data; every record it stores - the
\* target's and each competitor's - is complete, with an error marker in the
\* sub-fields whose lookup failed ("Ticker symbol not found" for a company
\* without ticker); and when it has returned, the run goes on with
\* analyze_financials.
C8_FetchFailureContained ==
    /\ ~(runState = "Failed" /\ node = "collect_company_data")
    /\ (runState /= "NotStarted"
          /\ "competitor_data" \in DOMAIN state.company_data) =>
          /\ ErrorTagged(state.company_data.target_company_data)
          /\ \A i \in 1..Len(state.company_data.competitor_data) :
                ErrorTagged(state.company_data.competitor_data[i].financial_data)
    /\ Len(finished) = 3 =>
          /\ runState \in {"Running", "Failed"}
          /\ node = "analyze_financials"

C8_Witness ==
    /\ runState = "Running"
    /\ node = "analyze_financials"
    /\ phase = "llm"
    /\ state.target_company = "Unknown Startup X"
    /\ state.company_data.target_company_data.financial_data =
          [error |-> "Ticker symbol not found"]
    /\ Len(state.company_data.competitor_data) = 2
    /\ state.company_data.competitor_data[1].financial_data.financial_data =
          [error |-> "Ticker symbol not found"]

-----------------------------------------------------------------------------
(* C9 *)

\* C9 as stated: a run for an empty company name enters no stage function and
\* makes no model or data-provider call, and it never completes: if it ends,
\* it ends with InvalidInputError.
C9_EmptyNameRejected ==
    company_name = "" =>
        /\ started = <<>>
        /\ llm_calls = 0
        /\ fetches = <<>>
        /\ runState /= "Completed"
        /\ runState = "Failed" => raised[1].type = "InvalidInputError"

-----------------------------------------------------------------------------
(* C10 *)

\* the fields the per-stage table gives a stage
Designated(n) ==
    CASE n = "identify_industry"      -> {"industry", "company_data"}
      [] n = "find_competitors"       -> {"competitors"}
      [] n = "collect_company_data"   -> {"company_data"}
      [] n = "analyze_financials"     -> {"financial_comparison"}
      [] n = "perform_swot"           -> {"swot_analysis"}
      [] n = "assess_market_position" -> {"market_position"}
      [] n = "identify_trends"        -> {"market_trends"}
      [] n = "generate_report"        -> {"final_report", "confidence_score"}

\* C10: a step of a running stage changes the record only in the fields the
\* table gives that stage, keeps the record's field set, changes company_data
\* only by adding keys (every key it held keeps its value), and
\* target_company is the name the run was started with.
C10_Frame ==
    [][ runState = "Running" =>
          /\ DOMAIN state' = DOMAIN state
          /\ \A f \in DOMAIN state :
                state'[f] /= state[f] => f \in Designated(node)
          /\ \A k \in DOMAIN state.company_data :
                /\ k \in DOMAIN state'.company_data
                /\ state'.company_data[k] = state.company_data[k]
          /\ state'.target_company = company_name ]_vars

C10_Witness ==
    /\ runState = "Completed"
    /\ result[1].target_company = "Apple Inc."
    /\ result[1].swot_analysis /= <<>>
    /\ result[1].final_report = Some("Executive summary")

-----------------------------------------------------------------------------
(* C11 *)

\* C11: after every step of a run, final_report and confidence_score are None
\* unless generate_report has returned, and a final_report that was set keeps
\* its value.
C11_ReportOnlyAtEnd ==
    [][ /\ (runState' /= "NotStarted"
              /\ "generate_report" \notin Range(finished')) =>
              /\ state'.final_report = None
              /\ state'.confidence_score = None
        /\ (runState /= "NotStarted" /\ state.final_report /= None) =>
              state'.final_report = state.final_report ]_vars

C11_Witness ==
    /\ runState = "Completed"
    /\ state.final_report = Some("Executive summary")
    /\ state.confidence_score = Some(75)
    /\ now = 1

-----------------------------------------------------------------------------
(* C12 *)

\* the record a call that runs alone returns, from what it was given: the
\* clock t it read, the last response c, the data it collected
RunAlone(name, t, c, tgt, entries) ==
    LET s2 == _find_competitors(_identify_industry(initial_state(name), c, t), c)
        s3 == _collect_company_data(s2, tgt, entries)
        s7 == _identify_market_trends(
                  _assess_market_position(
                      _perform_swot_analysis(_analyze_financials(s3, c), c), c), c)
    IN  _generate_final_report(s7, c)

\* r is a record a call for name can return when it runs alone
SoloResult(name, r) ==
    LET tgt == r.company_data.target_company_data
        entries == r.company_data.competitor_data
        top == top_competitors(_find_competitors(initial_state(name), ""))
    IN  /\ tgt \in InfoResults(name)
        /\ Len(entries) = Len(top)
        /\ \A i \in 1..Len(top) :
              /\ entries[i].financial_data \in InfoResults(top[i].name)
              /\ entries[i] = competitor_entry(top[i], entries[i].financial_data)
        /\ \E t \in 0..MaxClock, c \in Contents :
              r = RunAlone(name, t, c, tgt, entries)

\* C12: with two calls interleaved on one analyzer, the data a call has
\* collected is its own company's, the record a call returns is one it can
\* return when it runs alone, and a step of one call leaves everything of the
\* other call as it was (a switch only exchanges the two).
C12_RunsIndependent ==
    /\ [](/\ target_data /= None => target_data[1].company_name = company_name
          /\ fetching /= None =>
                fetching[1].name \in {company_name}
                                     \cup Range(NamesOf(state.competitors)))
    /\ [][ /\ (other' = other /\ runState = "Running" /\ runState' = "Completed") =>
                 SoloResult(company_name', result'[1])
           /\ \/ other' = other
              \/ (other' = call_context /\ call_context' = other) ]_vars

C12_Witness ==
    /\ runState = "Completed"
    /\ company_name = "Apple Inc."
    /\ other.runState = "Completed"
    /\ other.company_name = "Unknown Startup X"
    /\ other.started = ClaimedOrder

-----------------------------------------------------------------------------
(* C13 *)

\* the lines of the report display
ReportSections ==
    {"analysis_complete", "report_header", "industry", "competitors",
     "market_position", "key_trends", "executive_summary", "saved_to"}

ReportPrinted ==
    \E i \in 1..Len(driver.output) : driver.output[i].line \in ReportSections

\* C13: when a stage of the run has raised, the driver has printed no line of
\* the report and written no file; a report line or a results file exists only
\* once analyze_company has returned its record, and a written file holds that
\* record.
C13_NoPartialReport ==
    /\ runState = "Failed" => (~ReportPrinted /\ driver.files = <<>>)
    /\ (ReportPrinted \/ driver.files /= <<>>) =>
          (runState = "Completed" /\ result /= None)
    /\ \A i \in 1..Len(driver.files) : driver.files[i].content = result[1]

C13_Witness ==
    /\ runState = "Failed"
    /\ node = "generate_report"
    /\ driver.pc = "done"
    /\ driver.output[Len(driver.output)].line = "traceback"
    /\ driver.files = <<>>

-----------------------------------------------------------------------------
(* C15 *)

\* number of competitors of type t
CountType(comps, t) == Cardinality({i \in 1..Len(comps) : comps[i].type = t})

\* C15: once find_competitors has returned, competitors holds 5-7 direct, 3-5
\* indirect and 2-3 emerging entries (10 to 15 in all), each with a threat
\* level.
C15_CompetitorCounts ==
    ("find_competitors" \in Range(finished)) =>
        /\ CountType(state.competitors, "direct") \in 5..7
        /\ CountType(state.competitors, "indirect") \in 3..5
        /\ CountType(state.competitors, "emerging") \in 2..3
        /\ Len(state.competitors) \in 10..15
        /\ \A i \in 1..Len(state.competitors) :
              "threat_level" \in DOMAIN state.competitors[i]

-----------------------------------------------------------------------------
(* C17 *)

\* the stage that makes the k-th call of the model
CallingStage(k) == IF k <= 2 THEN ClaimedOrder[k] ELSE ClaimedOrder[k + 1]

\* C17 as stated: a run (for a non-empty name) that is Completed has called
\* the model eight times, and every stage entered has made one call.
C17_Original ==
    company_name /= "" =>
        /\ runState = "Completed" => llm_calls = 8
        /\ Terminal => llm_calls = Len(started)

\* C17, amended: every stage but collect_company_data calls the model exactly
\* once and collect_company_data never does: a call is made on entry of a
\* stage other than collect_company_data and only then, the k-th call is made
\* by stage k for k <= 2 and by stage k+1 for k >= 3, and a Completed run has
\* made exactly seven calls.
C17_ModelCalls ==
    [][ /\ llm_calls' \in {llm_calls, llm_calls + 1}
        /\ (llm_calls' = llm_calls + 1) <=>
              (started' /= started /\ node /= "collect_company_data")
        /\ (llm_calls' = llm_calls + 1) => node = CallingStage(llm_calls')
        /\ node = "collect_company_data" => llm_calls' = llm_calls
        /\ runState' = "Completed" => llm_calls' = 7 ]_vars

C17_Witness ==
    /\ runState = "Completed"
    /\ llm_calls = 7
    /\ Len(started) = 8
    /\ Len(fetches) = 3

-----------------------------------------------------------------------------
(* C19 *)

\* C19: a run that has started ends, Completed or Failed, when every call of
\* the model and of the data provider comes back; a stage that returns hands
\* over to the next stage, or to Completed when it is the last; a stage that
\* raises leaves the run Failed in that stage; and the run is Completed
\* exactly when all eight stages have returned.
C19_Terminates ==
    /\ (runState = "Running") ~> Terminal
    /\ [](runState = "Completed" <=> finished = ClaimedOrder)
    /\ [][ /\ finished' /= finished =>
                 /\ runState = "Running"
                 /\ finished' = Append(finished, node)
                 /\ IF StageIndex(node) = Len(ClaimedOrder)
                    THEN runState' = "Completed"
                    ELSE /\ runState' = "Running"
                         /\ node' = ClaimedOrder[StageIndex(node) + 1]
           /\ raised' /= raised =>
                 /\ runState = "Running"
                 /\ runState' = "Failed"
                 /\ node' = node
                 /\ finished' = finished ]_vars

C19_Witness ==
    /\ runState = "Completed"
    /\ finished = ClaimedOrder
    /\ raised = None
    /\ fetches = <<"Unknown Startup X", "Competitor 1", "Competitor 2">>
    /\ now = 1

-----------------------------------------------------------------------------
(* C18 *)

Min(a, b) == IF a < b THEN a ELSE b

\* the companies _collect_company_data is to fetch data for, in order
ExpectedFetches(s) ==
    <<s.target_company>>
        \o NamesOf(SubSeq(s.competitors, 1, Min(5, Len(s.competitors))))

\* C18: _collect_company_data fetches the target company first and then the
\* first min(5, len(competitors)) competitors in list order, each once and no
\* other (at most 6 fetches); when it has returned, all of these fetches have
\* been made and competitor_data holds min(5, len(competitors)) entries, in
\* the order of the list.
C18_FetchCount ==
    /\ IsPrefix(fetches, ExpectedFetches(state))
    /\ Len(fetches) <= 6
    /\ ("collect_company_data" \in Range(finished)) =>
          /\ fetching = None
          /\ fetches = ExpectedFetches(state)
          /\ Len(fetches) = 1 + Min(5, Len(state.competitors))
          /\ Len(state.company_data.competitor_data) =
                Min(5, Len(state.competitors))
          /\ \A i \in 1..Len(state.company_data.competitor_data) :
                state.company_data.competitor_data[i].name =
                    state.competitors[i].name

C18_Witness ==
    /\ "collect_company_data" \in Range(finished)
    /\ Len(state.competitors) = 7
    /\ Len(fetches) = 6
    /\ Len(state.company_data.competitor_data) = 5
    /\ state.company_data.competitor_data[5].name = "Competitor 5"

-----------------------------------------------------------------------------
(* C14 *)

\* both records have been given to the stage function
BothCalled == fn.out.a /= None /\ fn.out.b /= None

\* C14: the prompt of perform_swot is a function of target_company, industry,
\* the names of the first five competitors and financial_comparison only: two
\* records that agree on these get the same prompt, whatever their other
\* fields hold, whenever each prompt is built and whatever the model answers.
C14_SwotPromptDeterministic ==
    (/\ fn.stage = "perform_swot"
     /\ BothCalled
     /\ fn.a.target_company = fn.b.target_company
     /\ fn.a.industry = fn.b.industry
     /\ NamesOf(Take(fn.a.competitors, 5)) = NamesOf(Take(fn.b.competitors, 5))
     /\ fn.a.financial_comparison = fn.b.financial_comparison) =>
        fn.out.a[1].prompt = fn.out.b[1].prompt

C14_Witness ==
    /\ fn.stage = "perform_swot"
    /\ BothCalled
    /\ Len(fn.a.competitors) = 7
    /\ Len(fn.b.competitors) = 5
    /\ fn.out.a[1].at = 0
    /\ fn.out.b[1].at = 1
    /\ fn.out.a[1].content /= fn.out.b[1].content
    /\ fn.out.a[1].prompt = fn.out.b[1].prompt

-----------------------------------------------------------------------------
(* C16 *)

\* responses that cannot be parsed into any structure
Unparseable == {""}

\* the field a stage fills from what it extracts from the response
ExtractedField ==
    [identify_industry      |-> "industry",
     find_competitors       |-> "competitors",
     analyze_financials     |-> "financial_comparison",
     perform_swot           |-> "swot_analysis",
     assess_market_position |-> "market_position",
     identify_trends        |-> "market_trends",
     generate_report        |-> "confidence_score"]

\* C16: a stage given an unparseable response stores an error marker in its
\* output field: called on the same record, the stage leaves something else in
\* that field for an unparseable response than for a well-formed one.
C16_UnparseableMarked ==
    (/\ fn.stage \in llm_nodes
     /\ BothCalled
     /\ fn.a = fn.b
     /\ fn.out.a[1].content \in Unparseable
     /\ fn.out.b[1].content \notin Unparseable) =>
        fn.out.a[1].returned[ExtractedField[fn.stage]]
            /= fn.out.b[1].returned[ExtractedField[fn.stage]]

-----------------------------------------------------------------------------
(* C20 *)

\* what the per-stage table lists as the input of generate_report
ReportInputs(s) ==
    [target_company |-> s.target_company, industry |-> s.industry,
     competitor_count |-> Len(s.competitors),
     market_position |-> s.market_position,
     financial_comparison |-> s.financial_comparison,
     swot_analysis |-> s.swot_analysis, market_trends |-> s.market_trends]

\* C20: two records that differ in target_company, industry, the number of
\* competitors, market_position, financial_comparison, swot_analysis or
\* market_trends get different generate_report prompts.
C20_ReportPromptUsesAll ==
    (/\ fn.stage = "generate_report"
     /\ BothCalled
     /\ ReportInputs(fn.a) /= ReportInputs(fn.b)) =>
        fn.out.a[1].prompt /= fn.out.b[1].prompt

-----------------------------------------------------------------------------
(* C21 *)

\* C21: whatever keys the company_data it is given holds, _identify_industry
\* returns a company_data with exactly the keys industry_classification and
\* analysis_timestamp; _collect_company_data keeps every key it is given, with
\* its value, and adds target_company_data and competitor_data; and the record
\* generate_report returns at the end of a run has a company_data with exactly
\* these four keys.
C21_CompanyDataKeys ==
    \A w \in {"a", "b"} :
        fn.out[w] /= None =>
            LET given == fn[w].company_data
                returned == fn.out[w][1].returned.company_data
            IN  /\ fn.stage = "identify_industry" =>
                      DOMAIN returned = {"industry_classification",
                                         "analysis_timestamp"}
                /\ fn.stage = "collect_company_data" =>
                      /\ DOMAIN returned = DOMAIN given
                            \cup {"target_company_data", "competitor_data"}
                      /\ \A k \in DOMAIN given \ {"target_company_data",
                                                  "competitor_data"} :
                            returned[k] = given[k]
                      /\ returned.target_company_data = fn.out[w][1].fetched
                /\ (fn.stage = "generate_report"
                    /\ fn[w] = state_after(fn[w].target_company, 7)) =>
                      DOMAIN returned = {"industry_classification",
                                         "analysis_timestamp",
                                         "target_company_data",
                                         "competitor_data"}

C21_Witness ==
    /\ fn.stage = "identify_industry"
    /\ fn.out.a /= None
    /\ DOMAIN fn.a.company_data = {"industry_classification",
                                   "analysis_timestamp", "target_company_data",
                                   "competitor_data"}
    /\ DOMAIN fn.out.a[1].returned.company_data =
          {"industry_classification", "analysis_timestamp"}
    /\ fn.b.company_data = [source |-> "cache"]
    /\ fn.out.b /= None

-----------------------------------------------------------------------------
(* C22 *)

\* the user has been asked for a company name
NameAsked ==
    \E i \in 1..Len(driver.output) :
        driver.output[i].line = "enter_company_name"

\* C22: the models are probed in the order of available_models; the driver
\* stops at the first model whose test request the provider answers, selects
\* it and builds the analyzer with it; with no API key or with no model
\* answering it returns without asking for a company name and without running
\* a stage; and a run starts only after a probe has succeeded.
C22_ProbeOrder ==
    /\ \A i \in 1..Len(driver.probed) :
          /\ driver.probed[i].model = available_models[i]
          /\ driver.probed[i].answered =>
                /\ i = Len(driver.probed)
                /\ driver.selected_model = Some(driver.probed[i].model)
          /\ ~driver.probed[i].answered => driver.probed[i].succeeded = FALSE
    /\ driver.selected_model /= None =>
          driver.probed[Len(driver.probed)].succeeded
    /\ driver.analyzer /= None => driver.analyzer = driver.selected_model
    /\ (driver.pc = "done" /\ driver.selected_model = None) =>
          /\ ~NameAsked
          /\ runState = "NotStarted"
          /\ \/ ~driver.api_key /\ driver.probed = <<>>
             \/ /\ Len(driver.probed) = Len(available_models)
                /\ \A i \in 1..Len(driver.probed) : ~driver.probed[i].answered
    /\ (NameAsked \/ runState /= "NotStarted") =>
          /\ driver.selected_model /= None
          /\ driver.analyzer = driver.selected_model

=============================================================================
